---- MODULE Spec2Model ----
(***************************************************************************)
(* Elite Arena server: the booking lifecycle and the role promotion that   *)
(* an approval triggers, as implemented by the Express route handlers over *)
(* the MongoDB collections "bookings" and "userscollection".               *)
(*                                                                         *)
(* The repository carries three revisions of PATCH /bookings/:id:          *)
(*   "index"   src/index.js:310-358 (identical to part_000:403-451)        *)
(*   "uid"     src/unnamed/part_000:927-969 (unconditional role write)     *)
(*   "noPromo" src/unnamed/part_001:122-146 (status write only)            *)
(* The variable rev says which revision is deployed.                       *)
(***************************************************************************)
EXTENDS Integers, Sequences, FiniteSets, TLC

VARIABLES rev, bookings, users, inserted, now, req, res, calls, booking, user,
          body, fault, up, coupons, flights

vars == <<rev, bookings, users, inserted, now, req, res, calls, booking, user,
          body, fault, up, coupons, flights>>

\* what the handlers of the bookings never touch: the process, the coupons
\* collection, the status changes in flight
others == <<up, coupons, flights>>

(***************************************************************************)
(* Bounds of the model.                                                    *)
(***************************************************************************)
MaxBookings == 2

MaxUsers == 2
\* the coupons the coupons collection may come to hold
MaxCoupons == 2
\* the accounts PUT /users may add
MaxNewUsers == 2

(***************************************************************************)
(* Values.                                                                 *)
(***************************************************************************)
\* a field that the JSON payload or the document does not carry (undefined)
Absent == "<undefined>"

\* the result of findOne when no document matches (null)
NoDoc == [absent |-> TRUE]

Revisions == {"index", "uid", "noPromo"}

ValidStatuses == {"approved", "pending", "rejected"}

Roles == {"user", "member", "admin"}

\* status values a caller may send in a request body
RequestStatuses == ValidStatuses \cup {Absent, "cancelled"}

EmailList == <<"a@x.com", "b@x.com", "c@x.com", "d@x.com">>

UidList == <<"uid-1", "uid-2", "uid-3", "uid-4">>

\* the request bodies of POST /bookings: JSON objects that name the requester
\* by email and by uid, with or without a status of the caller's choosing
Payloads ==
    { [status |-> s, userEmail |-> EmailList[1], userId |-> UidList[1],
       court |-> "C1", createdAt |-> Absent] :
        s \in {Absent, "approved"} }

(***************************************************************************)
(* Identifiers.  A request carries the id as text; new ObjectId(text)      *)
(* parses 24 hexadecimal characters, in either case, into the 12-byte      *)
(* value the store compares, and throws on any other text.                 *)
(***************************************************************************)
HexChars == <<"0", "1", "2", "3", "4", "5", "6", "7", "8", "9",
              "a", "b", "c", "d", "e", "f">>

UpperHexChars == <<"0", "1", "2", "3", "4", "5", "6", "7", "8", "9",
                   "A", "B", "C", "D", "E", "F">>

\* the value of each hexadecimal character, upper or lower case
HexValue ==
    [ c \in { HexChars[i] : i \in 1..16 } \cup { UpperHexChars[i] : i \in 1..16 } |->
        (CHOOSE i \in 1..16 : HexChars[i] = c \/ UpperHexChars[i] = c) - 1 ]

IsHexChar(c) == c \in DOMAIN HexValue

HexVal(c) == HexValue[c]

\* ObjectId.isValid restricted to text: 24 hexadecimal characters
IsValidObjectId(text) ==
    /\ Len(text) = 24
    /\ \A i \in 1..24 : IsHexChar(text[i])

\* new ObjectId(text), for text that IsValidObjectId accepts
ObjectId(text) == [i \in 1..24 |-> HexVal(text[i])]

\* the text of an id: 23 zeros and a last character
IdText(last) == [i \in 1..24 |-> IF i = 24 THEN last ELSE "0"]

\* the n-th identifier the store assigns on insert
NewObjectId(n) == ObjectId(IdText(HexChars[10 + n]))

OidPool == { NewObjectId(n) : n \in 1..MaxBookings }

NonexistentId == <<"n", "o", "n", "e", "x", "i", "s", "t", "e", "n", "t", "-", "i", "d">>

\* the id texts callers send: the ids the store assigns, the first of them
\* in upper case too, and arbitrary text
RequestIds ==
    { IdText(HexChars[10 + n]) : n \in 1..MaxBookings }
        \cup { IdText(UpperHexChars[11]), NonexistentId }

(***************************************************************************)
(* The store: the calls the handlers make on the two collections.          *)
(***************************************************************************)
\* the log entry of one store call of a handler
Call(coll, op, key) == [coll |-> coll, op |-> op, key |-> key]

\* QueryEq with the comparison lost: the filter matches every document
QueryEqAnything(docVal, q) == TRUE

\* a query value against a document field; the driver serialises an
\* undefined query value as null, which matches a field that is missing
QueryEq(docVal, q) == docVal = q

\* bookingsCollection.findOne({ _id })
FindBooking(bks, oid) == IF oid \in DOMAIN bks THEN bks[oid] ELSE NoDoc

\* SetStatus as a strict state machine would have it: only a pending booking moves
SetStatusFromPendingOnly(doc, status) ==
    IF doc.status = "pending" THEN [doc EXCEPT !.status = status] ELSE doc

\* the update document { $set: { status } } applied to a booking
SetStatus(doc, status) == [doc EXCEPT !.status = status]

\* UpdateBookingStatus with the filter lost: every stored booking is written
UpdateEveryBookingStatus(bks, oid, status) ==
    [o \in DOMAIN bks |-> IF bks[o] # NoDoc THEN SetStatus(bks[o], status) ELSE NoDoc]

\* bookingsCollection.updateOne({ _id }, { $set: { status } }): the collection afterwards
UpdateBookingStatus(bks, oid, status) ==
    IF FindBooking(bks, oid) # NoDoc
    THEN [bks EXCEPT ![oid] = SetStatus(@, status)]
    ELSE bks

\* the matchedCount of that updateOne
MatchedCount(bks, oid) == IF FindBooking(bks, oid) # NoDoc THEN 1 ELSE 0

\* the slots of the users that a filter { field: q } matches
MatchingUsers(usrs, field, q) ==
    { i \in DOMAIN usrs : usrs[i] # NoDoc /\ QueryEq(usrs[i][field], q) }

\* the first match, in the collection's natural order; 0 when there is none
FirstUser(usrs, field, q) ==
    IF MatchingUsers(usrs, field, q) = {} THEN 0
    ELSE CHOOSE i \in MatchingUsers(usrs, field, q) :
            \A j \in MatchingUsers(usrs, field, q) : i <= j

\* usersCollection.findOne({ field: q })
FindUser(usrs, field, q) ==
    IF FirstUser(usrs, field, q) = 0 THEN NoDoc ELSE usrs[FirstUser(usrs, field, q)]

\* usersCollection.updateOne({ field: q }, { $set: { role } }): the collection afterwards
UpdateUserRole(usrs, field, q, role) ==
    IF FirstUser(usrs, field, q) = 0 THEN usrs
    ELSE [usrs EXCEPT ![FirstUser(usrs, field, q)].role = role]

(***************************************************************************)
(* POST /bookings                                                          *)
(***************************************************************************)
\* NewBooking with the status defaulted instead of forced
NewBookingKeepingStatus(payload, time) ==
    [payload EXCEPT !.status = IF payload.status = Absent THEN "pending" ELSE payload.status,
                    !.createdAt = time]

\* the document the handler inserts: the payload with status and createdAt forced
NewBooking(payload, time) ==
    [payload EXCEPT !.status = "pending", !.createdAt = time]

(***************************************************************************)
(* PATCH /bookings/:id                                                     *)
(***************************************************************************)
\* IsValidStatus with the membership test lost: any non-empty status passes
IsPresentStatus(status) ==
    /\ status # Absent
    /\ status # ""

\* the guard of the 400 response is the negation of this
IsValidStatus(status) ==
    /\ status # Absent
    /\ status # ""
    /\ status \in {"approved", "pending", "rejected"}

\* ShouldPromote without the role comparison
ShouldPromoteAnyRole(u) == u # NoDoc

\* the promotion test: user && user.role === "user"
ShouldPromote(u) == u # NoDoc /\ u.role = "user"

\* what a handler run yields: the response code, the collections afterwards,
\* the store calls made, and the documents its lookups returned
Outcome(code, bks, usrs, log, found, u) ==
    [code |-> code, bookings |-> bks, users |-> usrs, calls |-> log,
     booking |-> found, user |-> u]

\* PromoteIndex as an increment of the role instead of a comparison and a set
PromoteIndexIncrement(bks, usrs, log, found) ==
    LET u == FindUser(usrs, "email", found.userEmail)
    IN  IF u # NoDoc /\ u.role # "admin"
        THEN Outcome(200, bks,
                     UpdateUserRole(usrs, "email", found.userEmail,
                                    IF u.role = "user" THEN "member" ELSE "admin"),
                     log \o << Call("users", "findOne", found.userEmail),
                               Call("users", "updateOne", found.userEmail) >>,
                     found, u)
        ELSE Outcome(200, bks, usrs,
                     log \o << Call("users", "findOne", found.userEmail) >>,
                     found, u)

\* PromoteIndex correlating the booking with the user by userId, as the
\* pending-bookings query does
PromoteIndexByUserId(bks, usrs, log, found) ==
    LET u == FindUser(usrs, "uid", found.userId)
    IN  IF ShouldPromote(u)
        THEN Outcome(200, bks,
                     UpdateUserRole(usrs, "uid", found.userId, "member"),
                     log \o << Call("users", "findOne", found.userId),
                               Call("users", "updateOne", found.userId) >>,
                     found, u)
        ELSE Outcome(200, bks, usrs,
                     log \o << Call("users", "findOne", found.userId) >>,
                     found, u)

\* the promotion block of src/index.js, run after the status write
PromoteIndex(bks, usrs, log, found) ==
    LET u == FindUser(usrs, "email", found.userEmail)
    IN  IF ShouldPromote(u)
        THEN Outcome(200, bks,
                     UpdateUserRole(usrs, "email", found.userEmail, "member"),
                     log \o << Call("users", "findOne", found.userEmail),
                               Call("users", "updateOne", found.userEmail) >>,
                     found, u)
        ELSE Outcome(200, bks, usrs,
                     log \o << Call("users", "findOne", found.userEmail) >>,
                     found, u)

\* the handler of src/index.js
PatchIndex(bks, usrs, id, status) ==
    LET oid == ObjectId(id)
        found == FindBooking(bks, oid)
    IN  IF ~IsValidStatus(status)
        THEN Outcome(400, bks, usrs, << >>, NoDoc, NoDoc)
        ELSE IF ~IsValidObjectId(id)
        THEN Outcome(500, bks, usrs, << >>, NoDoc, NoDoc)
        ELSE IF found = NoDoc
        THEN Outcome(404, bks, usrs,
                     << Call("bookings", "findOne", oid) >>, NoDoc, NoDoc)
        ELSE IF status = "approved"
        THEN PromoteIndex(UpdateBookingStatus(bks, oid, status), usrs,
                          << Call("bookings", "findOne", oid),
                             Call("bookings", "updateOne", oid) >>,
                          found)
        ELSE Outcome(200, UpdateBookingStatus(bks, oid, status), usrs,
                     << Call("bookings", "findOne", oid),
                        Call("bookings", "updateOne", oid) >>,
                     found, NoDoc)

\* the handler of the revision that writes the role without reading it
PatchUid(bks, usrs, id, status) ==
    LET oid == ObjectId(id)
        found == FindBooking(bks, oid)
    IN  IF ~IsValidStatus(status)
        THEN Outcome(400, bks, usrs, << >>, NoDoc, NoDoc)
        ELSE IF ~IsValidObjectId(id)
        THEN Outcome(500, bks, usrs, << >>, NoDoc, NoDoc)
        ELSE IF found = NoDoc
        THEN Outcome(404, bks, usrs,
                     << Call("bookings", "findOne", oid) >>, NoDoc, NoDoc)
        ELSE IF status = "approved"
        THEN Outcome(200, UpdateBookingStatus(bks, oid, status),
                     UpdateUserRole(usrs, "uid", found.userId, "member"),
                     << Call("bookings", "findOne", oid),
                        Call("bookings", "updateOne", oid),
                        Call("users", "updateOne", found.userId) >>,
                     found, NoDoc)
        ELSE Outcome(200, UpdateBookingStatus(bks, oid, status), usrs,
                     << Call("bookings", "findOne", oid),
                        Call("bookings", "updateOne", oid) >>,
                     found, NoDoc)

\* the handler of the revision that only writes the status
PatchNoPromo(bks, usrs, id, status) ==
    LET oid == ObjectId(id)
    IN  IF ~IsValidStatus(status)
        THEN Outcome(400, bks, usrs, << >>, NoDoc, NoDoc)
        ELSE IF ~IsValidObjectId(id)
        THEN Outcome(500, bks, usrs, << >>, NoDoc, NoDoc)
        ELSE IF MatchedCount(bks, oid) = 0
        THEN Outcome(404, UpdateBookingStatus(bks, oid, status), usrs,
                     << Call("bookings", "updateOne", oid) >>, NoDoc, NoDoc)
        ELSE Outcome(200, UpdateBookingStatus(bks, oid, status), usrs,
                     << Call("bookings", "updateOne", oid) >>, NoDoc, NoDoc)

\* PatchIndexFailing inside a transaction: the status write is rolled back
PatchIndexFailingRolledBack(bks, usrs, id, status, k) ==
    Outcome(500, bks, usrs,
            SubSeq(PatchIndex(bks, usrs, id, status).calls, 1, k), NoDoc, NoDoc)

\* the handler of src/index.js when its k-th store call throws: the calls
\* before it have taken effect, the catch block answers 500
PatchIndexFailing(bks, usrs, id, status, k) ==
    LET out == PatchIndex(bks, usrs, id, status)
    IN  Outcome(500,
                IF k > 2 THEN out.bookings ELSE bks,
                usrs,
                SubSeq(out.calls, 1, k),
                IF k > 1 THEN out.booking ELSE NoDoc,
                IF k > 3 THEN out.user ELSE NoDoc)

\* the handler of the deployed revision
Patch(r, bks, usrs, id, status) ==
    CASE r = "index" -> PatchIndex(bks, usrs, id, status)
      [] r = "uid" -> PatchUid(bks, usrs, id, status)
      [] r = "noPromo" -> PatchNoPromo(bks, usrs, id, status)

(***************************************************************************)
(* DELETE /bookings/:id                                                    *)
(***************************************************************************)
\* DeleteOneBooking as a soft delete: the booking stays, marked cancelled
DeleteOneBookingSoftly(bks, oid) ==
    IF FindBooking(bks, oid) # NoDoc THEN [bks EXCEPT ![oid].status = "cancelled"] ELSE bks

\* bookingsCollection.deleteOne({ _id }): the collection afterwards
DeleteOneBooking(bks, oid) ==
    IF FindBooking(bks, oid) # NoDoc THEN [bks EXCEPT ![oid] = NoDoc] ELSE bks

\* the handler
Delete(bks, usrs, id) ==
    LET oid == ObjectId(id)
    IN  IF ~IsValidObjectId(id)
        THEN Outcome(500, bks, usrs, << >>, NoDoc, NoDoc)
        ELSE IF FindBooking(bks, oid) = NoDoc
        THEN Outcome(404, DeleteOneBooking(bks, oid), usrs,
                     << Call("bookings", "deleteOne", oid) >>, NoDoc, NoDoc)
        ELSE Outcome(200, DeleteOneBooking(bks, oid), usrs,
                     << Call("bookings", "deleteOne", oid) >>, NoDoc, NoDoc)

(***************************************************************************)
(* GET /bookings/pending/:userId and GET /bookings/approved/:email         *)
(***************************************************************************)
\* FindBookings with the status condition lost
FindBookingsOfAnyStatus(bks, status, field, q) ==
    { oid \in DOMAIN bks : bks[oid] # NoDoc /\ QueryEq(bks[oid][field], q) }

\* bookingsCollection.find({ status, field: q }).toArray(): the ids of the
\* documents returned
FindBookings(bks, status, field, q) ==
    { oid \in DOMAIN bks :
        /\ bks[oid] # NoDoc
        /\ bks[oid].status = status
        /\ QueryEq(bks[oid][field], q) }

\* the :userId and :email parameters callers send: the requester's email
\* and the requester's uid
RequestContacts == {EmailList[1], UidList[1]}

(***************************************************************************)
(* GET /users/:email and PATCH /users/:email                               *)
(***************************************************************************)
\* the id texts of the status changes during which the store fails: the id
\* the store assigns first, no booking's before the first creation
FailingRequestIds == {IdText(HexChars[11])}

\* the :email parameters callers send
RequestEmails == {EmailList[1]}

\* the matchedCount of usersCollection.updateOne({ email }, ...)
MatchedUsers(usrs, email) == IF FirstUser(usrs, "email", email) = 0 THEN 0 ELSE 1

\* what becomes of a request whose async handler rejects: no response and
\* the process lives on, no response and the process exits, or the
\* framework's own 500
UnhandledOutcomes == {"hang", "crash", "frameworkError"}

(***************************************************************************)
(* PUT /users and PATCH /members/downgrade/:id.  The users collection is   *)
(* the sequence of its documents in insertion order; the n-th document has *)
(* _id NewObjectId(n).                                                     *)
(***************************************************************************)
\* !v of a string field
IsFalsyText(v) == v = Absent \/ v = ""

\* the request bodies of PUT /users: with or without email and name, and
\* with a role the handler does not read
UserPayloads ==
    { [email |-> e, name |-> n, role |-> r] :
        e \in {Absent, EmailList[1], EmailList[2]},
        n \in {Absent, "Ann"},
        r \in {Absent, "admin"} }

UserRequestIds == { IdText(HexChars[10 + n]) : n \in 1..MaxUsers } \cup {NonexistentId}

\* what a users handler leaves: response code, collection, store calls
UserOutcome(code, usrs, log) == [code |-> code, users |-> usrs, calls |-> log]

\* NewUser taking the role from the request body when it carries one
NewUserKeepingRole(payload, time) ==
    [email |-> payload.email,
     role |-> IF payload.role = Absent THEN "user" ELSE payload.role,
     uid |-> Absent, lastLoggedIn |-> time]

\* the document PUT /users inserts for a new email
NewUser(payload, time) ==
    [email |-> payload.email, role |-> "user", uid |-> Absent, lastLoggedIn |-> time]

\* usersCollection.updateOne({ email }, { $set: { lastLoggedIn } })
SetLastLoggedIn(usrs, email, time) ==
    IF FirstUser(usrs, "email", email) = 0 THEN usrs
    ELSE [usrs EXCEPT ![FirstUser(usrs, "email", email)].lastLoggedIn = time]

\* the handler of PUT /users
PutUsers(usrs, payload, time) ==
    IF IsFalsyText(payload.email) \/ IsFalsyText(payload.name)
    THEN UserOutcome(400, usrs, << >>)
    ELSE IF FindUser(usrs, "email", payload.email) # NoDoc
    THEN UserOutcome(200, SetLastLoggedIn(usrs, payload.email, time),
                     << Call("users", "findOne", payload.email),
                        Call("users", "updateOne", payload.email) >>)
    ELSE UserOutcome(201, Append(usrs, NewUser(payload, time)),
                     << Call("users", "findOne", payload.email),
                        Call("users", "insertOne", payload.email) >>)

\* a PUT /users suspended between its findOne and its write
UserFlight(pc, payload) == [pc |-> pc, payload |-> payload]

\* the slot of the user with this _id, 0 when there is none
UserAt(usrs, oid) ==
    IF \E i \in DOMAIN usrs : usrs[i] # NoDoc /\ NewObjectId(i) = oid
    THEN CHOOSE i \in DOMAIN usrs : usrs[i] # NoDoc /\ NewObjectId(i) = oid
    ELSE 0

\* the handler of PATCH /members/downgrade/:id: updateOne with the filter
\* { _id, role: "member" }, 404 when it modified nothing
DowngradeMember(usrs, id) ==
    IF ~IsValidObjectId(id) THEN UserOutcome(500, usrs, << >>)
    ELSE LET at == UserAt(usrs, ObjectId(id))
             log == << Call("users", "updateOne", ObjectId(id)) >>
         IN  IF at # 0 /\ QueryEq(usrs[at].role, "member")
             THEN UserOutcome(200, [usrs EXCEPT ![at].role = "user"], log)
             ELSE UserOutcome(404, usrs, log)

(***************************************************************************)
(* The coupon routes.  The collection is the sequence of its documents in  *)
(* insertion order, a deleted one leaving NoDoc behind; the n-th inserted  *)
(* document has _id NewObjectId(n).                                        *)
(***************************************************************************)
CouponCodes == {"SAVE10", "SAVE20"}

\* JSON values of discountAmount: a number, a string of characters, nothing
Num(n) == [num |-> n]

Str(text) == [str |-> text]

Undefined == [undefined |-> TRUE]

NaN == [nan |-> TRUE]

\* !v of a discountAmount
IsFalsyAmount(v) ==
    \/ v = Undefined
    \/ "num" \in DOMAIN v /\ v.num = 0
    \/ "str" \in DOMAIN v /\ v.str = << >>

\* the value of a string of decimal digits
RECURSIVE DecimalValue(_)
DecimalValue(text) ==
    IF text = << >> THEN 0
    ELSE 10 * DecimalValue(SubSeq(text, 1, Len(text) - 1)) + HexVal(text[Len(text)])

\* Number(v) of a discountAmount that is not undefined
Number(v) ==
    IF "num" \in DOMAIN v THEN v
    ELSE IF \A i \in 1..Len(v.str) : IsHexChar(v.str[i]) /\ HexVal(v.str[i]) < 10
         THEN Num(DecimalValue(v.str))
         ELSE NaN

\* the request bodies of POST /coupons
CouponPayloads ==
    { [title |-> t, description |-> "Ten percent off", coupon |-> c, discountAmount |-> d] :
        t \in {Absent, "Sale"},
        c \in CouponCodes,
        d \in {Undefined, Num(0), Num(10), Str(<<"1", "0">>)} }

\* the request bodies of PATCH /coupons/:id
CouponUpdates ==
    { [coupon |-> c] : c \in CouponCodes } \cup { [discountAmount |-> Str(<<"2", "0">>)] }

CouponRequestIds == { IdText(HexChars[10 + n]) : n \in 1..MaxCoupons } \cup {NonexistentId}

\* a coupon creation suspended between its findOne and its insertOne
CouponFlight(payload) == [pc |-> "insertCoupon", payload |-> payload]

\* what a coupon handler leaves: response code, collection, store calls
CouponOutcome(code, cps, log) == [code |-> code, coupons |-> cps, calls |-> log]

\* couponsCollection.findOne({ coupon })
FindCouponByCode(cps, code) ==
    IF \E i \in DOMAIN cps : cps[i] # NoDoc /\ QueryEq(cps[i].coupon, code)
    THEN cps[CHOOSE i \in DOMAIN cps :
                /\ cps[i] # NoDoc /\ QueryEq(cps[i].coupon, code)
                /\ \A j \in 1..(i - 1) : cps[j] = NoDoc \/ ~QueryEq(cps[j].coupon, code)]
    ELSE NoDoc

\* the position of the coupon with this _id, 0 when there is none
CouponAt(cps, oid) ==
    IF \E i \in DOMAIN cps : cps[i] # NoDoc /\ NewObjectId(i) = oid
    THEN CHOOSE i \in DOMAIN cps : cps[i] # NoDoc /\ NewObjectId(i) = oid
    ELSE 0

\* the handler of POST /coupons
PostCoupon(cps, payload) ==
    IF \/ IsFalsyText(payload.title) \/ IsFalsyText(payload.description)
       \/ IsFalsyText(payload.coupon) \/ IsFalsyAmount(payload.discountAmount)
    THEN CouponOutcome(400, cps, << >>)
    ELSE IF FindCouponByCode(cps, payload.coupon) # NoDoc
    THEN CouponOutcome(409, cps, << Call("coupons", "findOne", payload.coupon) >>)
    ELSE CouponOutcome(201,
                       Append(cps, [payload EXCEPT !.discountAmount = Number(@)]),
                       << Call("coupons", "findOne", payload.coupon),
                          Call("coupons", "insertOne", payload.coupon) >>)

\* $set: updateData on one document, discountAmount converted by Number
SetCouponFields(doc, data) ==
    [f \in DOMAIN doc |->
        IF f \in DOMAIN data
        THEN (IF f = "discountAmount" THEN Number(data[f]) ELSE data[f])
        ELSE doc[f]]

\* the handler of PATCH /coupons/:id
PatchCoupon(cps, id, data) ==
    IF ~IsValidObjectId(id) THEN CouponOutcome(500, cps, << >>)
    ELSE LET at == CouponAt(cps, ObjectId(id))
             log == << Call("coupons", "updateOne", ObjectId(id)) >>
         IN  IF at = 0 THEN CouponOutcome(404, cps, log)
             ELSE CouponOutcome(200, [cps EXCEPT ![at] = SetCouponFields(@, data)], log)

\* the handler of DELETE /coupons/:id
DeleteCouponById(cps, id) ==
    IF ~IsValidObjectId(id) THEN CouponOutcome(500, cps, << >>)
    ELSE LET at == CouponAt(cps, ObjectId(id))
             log == << Call("coupons", "deleteOne", ObjectId(id)) >>
         IN  IF at = 0 THEN CouponOutcome(404, cps, log)
             ELSE CouponOutcome(200, [cps EXCEPT ![at] = NoDoc], log)

(***************************************************************************)
(* The state machine.                                                      *)
(***************************************************************************)
\* the instances of the status-change handler that may be in flight
Handlers == {"h1", "h2"}

\* a handler instance that is not serving a request
Idle == [idle |-> TRUE]

\* a status change suspended at an await: the store call it resumes with, its
\* parameters, the booking findOne returned, the matchedCount of its write
Flight(pc, id, status, found, matched) ==
    [pc |-> pc, id |-> id, status |-> status, booking |-> found, matched |-> matched]

\* a request as received: the route, the :id parameter, the status of the body
Request(op, id, status) == [op |-> op, id |-> id, status |-> status]

\* a response: the HTTP status, the insertedId of a creation, the
\* matchedCount of the bookingUpdateResult of a status change
Response(code, insertedId, matched) ==
    [code |-> code, insertedId |-> insertedId, matched |-> matched]

\* the accounts a users collection may hold before any request
InitUsers ==
    [ 1..MaxUsers ->
        {NoDoc} \cup { [email |-> e, role |-> r, uid |-> u, lastLoggedIn |-> 0] :
                          e \in {EmailList[k] : k \in 1..MaxUsers},
                          r \in Roles,
                          u \in {UidList[k] : k \in 1..MaxUsers} } ]

\* no booking yet; one account per email, each with its own uid: the account
\* of the requester of the bookings, with any role or missing, and the
\* accounts of other people: a user or an admin, and further users
InitStore ==
    /\ bookings = [oid \in OidPool |-> NoDoc]
    /\ users \in { us \in InitUsers :
                     \A i \in 1..MaxUsers :
                        /\ us[i] # NoDoc =>
                              us[i].email = EmailList[i] /\ us[i].uid = UidList[i]
                        /\ i > 1 => us[i] # NoDoc /\ us[i].role \in {"user", "admin"}
                        /\ i > 2 => us[i].role = "user" }
    /\ inserted = 0
    /\ now = 1
    /\ req = Request("none", << >>, Absent)
    /\ res = Response(0, << >>, 0)
    /\ calls = << >>
    /\ booking = NoDoc
    /\ user = NoDoc
    /\ body = {}
    /\ fault = 0
    /\ up = TRUE
    /\ coupons = << >>
    /\ flights = [h \in Handlers |-> Idle]

Init == rev = "index" /\ InitStore

InitRevisions == rev \in Revisions /\ InitStore

CreateBooking(payload) ==
    /\ up
    /\ inserted < MaxBookings
    /\ bookings' = [bookings EXCEPT ![NewObjectId(inserted + 1)] = NewBooking(payload, now)]
    /\ inserted' = inserted + 1
    /\ now' = now + 1
    /\ req' = Request("create", << >>, payload.status)
    /\ res' = Response(201, NewObjectId(inserted + 1), 0)
    /\ calls' = << Call("bookings", "insertOne", NewObjectId(inserted + 1)) >>
    /\ booking' = NoDoc
    /\ user' = NoDoc
    /\ body' = {}
    /\ fault' = 0
    /\ UNCHANGED <<rev, users, others>>

RequestStatusChange(id, status) ==
    LET out == Patch(rev, bookings, users, id, status)
    IN  /\ up
        /\ bookings' = out.bookings
        /\ users' = out.users
        /\ calls' = out.calls
        /\ booking' = out.booking
        /\ user' = out.user
        /\ req' = Request("patch", id, status)
        /\ res' = Response(out.code, << >>,
                           IF out.code = 200 THEN MatchedCount(bookings, ObjectId(id)) ELSE 0)
        /\ body' = {}
        /\ fault' = 0
        /\ UNCHANGED <<rev, inserted, now, others>>

\* the "noPromo" revision has its DELETE route commented out
DeleteBooking(id) ==
    LET out == Delete(bookings, users, id)
    IN  /\ up
        /\ rev # "noPromo"
        /\ bookings' = out.bookings
        /\ calls' = out.calls
        /\ booking' = NoDoc
        /\ user' = NoDoc
        /\ req' = Request("delete", id, Absent)
        /\ res' = Response(out.code, << >>, 0)
        /\ body' = {}
        /\ fault' = 0
        /\ UNCHANGED <<rev, users, inserted, now, others>>

\* GET /bookings/pending/:userId
ListPendingForRequester(contact) ==
    /\ up
    /\ body' = FindBookings(bookings, "pending", "userId", contact)
    /\ calls' = << Call("bookings", "find", contact) >>
    /\ booking' = NoDoc
    /\ user' = NoDoc
    /\ req' = Request("listPending", contact, Absent)
    /\ res' = Response(200, << >>, 0)
    /\ fault' = 0
    /\ UNCHANGED <<rev, bookings, users, inserted, now, others>>

\* GET /bookings/approved/:email, a route of the server of part_000:91-732,
\* whose booking handlers are those of src/index.js
ListApprovedForRequester(contact) ==
    /\ up
    /\ rev = "index"
    /\ body' = FindBookings(bookings, "approved", "userEmail", contact)
    /\ calls' = << Call("bookings", "find", contact) >>
    /\ booking' = NoDoc
    /\ user' = NoDoc
    /\ req' = Request("listApproved", contact, Absent)
    /\ res' = Response(200, << >>, 0)
    /\ fault' = 0
    /\ UNCHANGED <<rev, bookings, users, inserted, now, others>>

Next ==
    \/ \E payload \in Payloads : CreateBooking(payload)
    \/ \E id \in RequestIds, status \in RequestStatuses : RequestStatusChange(id, status)
    \/ \E id \in RequestIds : DeleteBooking(id)
    \/ \E contact \in RequestContacts : ListPendingForRequester(contact)
    \/ \E contact \in RequestContacts : ListApprovedForRequester(contact)

\* PATCH /bookings/:id of src/index.js with a store failure at its k-th call
RequestStatusChangeFailing(id, status, k) ==
    LET out == PatchIndexFailing(bookings, users, id, status, k)
    IN  /\ up
        /\ rev = "index"
        /\ k \in 1..Len(PatchIndex(bookings, users, id, status).calls)
        /\ bookings' = out.bookings
        /\ users' = out.users
        /\ calls' = out.calls
        /\ booking' = out.booking
        /\ user' = out.user
        /\ req' = Request("patch", id, status)
        /\ res' = Response(out.code, << >>, 0)
        /\ body' = {}
        /\ fault' = k
        /\ UNCHANGED <<rev, inserted, now, others>>

\* GET /users/:email
GetUser(email) ==
    /\ up
    /\ user' = FindUser(users, "email", email)
    /\ calls' = << Call("users", "findOne", email) >>
    /\ booking' = NoDoc
    /\ req' = Request("getUser", email, Absent)
    /\ res' = Response(IF FindUser(users, "email", email) = NoDoc THEN 404 ELSE 200, << >>, 0)
    /\ body' = {}
    /\ fault' = 0
    /\ UNCHANGED <<rev, bookings, users, inserted, now, others>>

\* PATCH /users/:email: name and image are not among the modelled fields
UpdateProfile(email) ==
    /\ up
    /\ calls' = << Call("users", "updateOne", email) >>
    /\ booking' = NoDoc
    /\ user' = NoDoc
    /\ req' = Request("updateProfile", email, Absent)
    /\ res' = Response(200, << >>, MatchedUsers(users, email))
    /\ body' = {}
    /\ fault' = 0
    /\ UNCHANGED <<rev, bookings, users, inserted, now, others>>

\* GET /users/:email with a store failure: the handler has no try/catch, the
\* rejection of the async handler reaches the runtime, with the outcome the
\* build gives it
GetUserFailing(email, outcome) ==
    /\ up
    /\ calls' = << Call("users", "findOne", email) >>
    /\ booking' = NoDoc
    /\ user' = NoDoc
    /\ req' = Request("getUser", email, Absent)
    /\ res' = Response(IF outcome = "frameworkError" THEN 500 ELSE 0, << >>, 0)
    /\ up' = (outcome # "crash")
    /\ body' = {}
    /\ fault' = 1
    /\ UNCHANGED <<rev, bookings, users, inserted, now, coupons, flights>>

\* PATCH /users/:email with a store failure: no try/catch either
UpdateProfileFailing(email, outcome) ==
    /\ up
    /\ calls' = << Call("users", "updateOne", email) >>
    /\ booking' = NoDoc
    /\ user' = NoDoc
    /\ req' = Request("updateProfile", email, Absent)
    /\ res' = Response(IF outcome = "frameworkError" THEN 500 ELSE 0, << >>, 0)
    /\ up' = (outcome # "crash")
    /\ body' = {}
    /\ fault' = 1
    /\ UNCHANGED <<rev, bookings, users, inserted, now, coupons, flights>>

NextFaulty ==
    \/ Next
    \/ \E id \in FailingRequestIds, status \in ValidStatuses, k \in 1..4 :
          RequestStatusChangeFailing(id, status, k)
    \/ \E email \in RequestEmails : GetUser(email)
    \/ \E email \in RequestEmails : UpdateProfile(email)
    \/ \E email \in RequestEmails, outcome \in UnhandledOutcomes : GetUserFailing(email, outcome)
    \/ \E email \in RequestEmails, outcome \in UnhandledOutcomes : UpdateProfileFailing(email, outcome)

\* the server of src/index.js
Spec == Init /\ [][Next]_vars

\* POST /coupons
CreateCoupon(payload) ==
    LET out == PostCoupon(coupons, payload)
    IN  /\ up
        /\ Len(out.coupons) <= MaxCoupons
        /\ coupons' = out.coupons
        /\ calls' = out.calls
        /\ req' = Request("createCoupon", payload, Absent)
        /\ res' = Response(out.code, << >>, 0)
        /\ booking' = NoDoc
        /\ user' = NoDoc
        /\ body' = {}
        /\ fault' = 0
        /\ UNCHANGED <<rev, bookings, users, inserted, now, up, flights>>

\* PATCH /coupons/:id
UpdateCoupon(id, data) ==
    LET out == PatchCoupon(coupons, id, data)
    IN  /\ up
        /\ coupons' = out.coupons
        /\ calls' = out.calls
        /\ req' = Request("updateCoupon", id, data)
        /\ res' = Response(out.code, << >>, 0)
        /\ booking' = NoDoc
        /\ user' = NoDoc
        /\ body' = {}
        /\ fault' = 0
        /\ UNCHANGED <<rev, bookings, users, inserted, now, up, flights>>

\* DELETE /coupons/:id
DeleteCoupon(id) ==
    LET out == DeleteCouponById(coupons, id)
    IN  /\ up
        /\ coupons' = out.coupons
        /\ calls' = out.calls
        /\ req' = Request("deleteCoupon", id, Absent)
        /\ res' = Response(out.code, << >>, 0)
        /\ booking' = NoDoc
        /\ user' = NoDoc
        /\ body' = {}
        /\ fault' = 0
        /\ UNCHANGED <<rev, bookings, users, inserted, now, up, flights>>

\* POST /coupons up to its await of couponsCollection.findOne, with the
\* answers on a missing field and on a stored coupon of the same code
BeginCreateCoupon(h, payload) ==
    LET out == PostCoupon(coupons, payload)
    IN  /\ up
        /\ flights[h] = Idle
        /\ Len(coupons) + Cardinality({ g \in Handlers : flights[g] # Idle }) < MaxCoupons
        /\ calls' = IF out.calls = << >> THEN << >> ELSE << out.calls[1] >>
        /\ IF out.code = 201
           THEN /\ flights' = [flights EXCEPT ![h] = CouponFlight(payload)]
                /\ UNCHANGED <<req, res>>
           ELSE /\ req' = Request("createCoupon", payload, Absent)
                /\ res' = Response(out.code, << >>, 0)
                /\ UNCHANGED flights
        /\ booking' = NoDoc
        /\ user' = NoDoc
        /\ body' = {}
        /\ fault' = 0
        /\ UNCHANGED <<rev, bookings, users, inserted, now, up, coupons>>

\* the handler resumes with couponsCollection.insertOne on the collection as
\* it is now, and answers 201
InsertCoupon(h) ==
    /\ up
    /\ flights[h] # Idle
    /\ flights[h].pc = "insertCoupon"
    /\ coupons' = Append(coupons, [flights[h].payload EXCEPT !.discountAmount = Number(@)])
    /\ calls' = << Call("coupons", "insertOne", flights[h].payload.coupon) >>
    /\ req' = Request("createCoupon", flights[h].payload, Absent)
    /\ res' = Response(201, << >>, 0)
    /\ flights' = [flights EXCEPT ![h] = Idle]
    /\ booking' = NoDoc
    /\ user' = NoDoc
    /\ body' = {}
    /\ fault' = 0
    /\ UNCHANGED <<rev, bookings, users, inserted, now, up>>

NextCoupons ==
    \/ \E payload \in CouponPayloads : CreateCoupon(payload)
    \/ \E id \in CouponRequestIds, data \in CouponUpdates : UpdateCoupon(id, data)
    \/ \E id \in CouponRequestIds : DeleteCoupon(id)
    \/ \E h \in Handlers, payload \in CouponPayloads : BeginCreateCoupon(h, payload)
    \/ \E h \in Handlers : InsertCoupon(h)

\* the coupon routes read and write no account: every account has role user
InitCoupons ==
    /\ Init
    /\ \A i \in DOMAIN users : users[i] # NoDoc /\ users[i].role = "user"

\* the coupon routes of src/index.js
SpecCoupons == InitCoupons /\ [][NextCoupons]_vars

\* PATCH /bookings/:id up to its first await: the validation, and
\* bookingsCollection.findOne with the answers on a missing booking
BeginStatusChange(h, id, status) ==
    LET out == PatchIndex(bookings, users, id, status)
    IN  /\ up
        /\ rev = "index"
        /\ flights[h] = Idle
        /\ calls' = IF out.calls = << >> THEN << >> ELSE << out.calls[1] >>
        /\ booking' = out.booking
        /\ user' = NoDoc
        /\ body' = {}
        /\ fault' = 0
        /\ IF out.code = 200
           THEN /\ flights' = [flights EXCEPT ![h] = Flight("update", id, status, out.booking, 0)]
                /\ UNCHANGED <<req, res>>
           ELSE /\ req' = Request("patch", id, status)
                /\ res' = Response(out.code, << >>, 0)
                /\ UNCHANGED flights
        /\ UNCHANGED <<rev, bookings, users, inserted, now, up, coupons>>

\* the handler resumes with bookingsCollection.updateOne on the store as it
\* is now; a status other than approved is answered at once
WriteStatus(h) ==
    /\ up
    /\ flights[h] # Idle
    /\ flights[h].pc = "update"
    /\ LET f == flights[h]
           oid == ObjectId(f.id)
       IN  /\ bookings' = UpdateBookingStatus(bookings, oid, f.status)
           /\ calls' = << Call("bookings", "updateOne", oid) >>
           /\ booking' = f.booking
           /\ IF f.status = "approved"
              THEN /\ flights' = [flights EXCEPT ![h] =
                                     Flight("lookup", f.id, f.status, f.booking,
                                            MatchedCount(bookings, oid))]
                   /\ UNCHANGED <<req, res>>
              ELSE /\ flights' = [flights EXCEPT ![h] = Idle]
                   /\ req' = Request("patch", f.id, f.status)
                   /\ res' = Response(200, << >>, MatchedCount(bookings, oid))
    /\ user' = NoDoc
    /\ body' = {}
    /\ fault' = 0
    /\ UNCHANGED <<rev, users, inserted, now, up, coupons>>

\* the handler resumes with usersCollection.findOne by the email of the
\* booking it looked up; without a user of role user it answers
LookupUser(h) ==
    /\ up
    /\ flights[h] # Idle
    /\ flights[h].pc = "lookup"
    /\ LET f == flights[h]
           u == FindUser(users, "email", f.booking.userEmail)
       IN  /\ calls' = << Call("users", "findOne", f.booking.userEmail) >>
           /\ booking' = f.booking
           /\ user' = u
           /\ IF ShouldPromote(u)
              THEN /\ flights' = [flights EXCEPT ![h] =
                                     Flight("promote", f.id, f.status, f.booking, f.matched)]
                   /\ UNCHANGED <<req, res>>
              ELSE /\ flights' = [flights EXCEPT ![h] = Idle]
                   /\ req' = Request("patch", f.id, f.status)
                   /\ res' = Response(200, << >>, f.matched)
    /\ body' = {}
    /\ fault' = 0
    /\ UNCHANGED <<rev, bookings, users, inserted, now, up, coupons>>

\* the handler resumes with usersCollection.updateOne and answers
PromoteUser(h) ==
    /\ up
    /\ flights[h] # Idle
    /\ flights[h].pc = "promote"
    /\ LET f == flights[h]
       IN  /\ users' = UpdateUserRole(users, "email", f.booking.userEmail, "member")
           /\ calls' = << Call("users", "updateOne", f.booking.userEmail) >>
           /\ booking' = f.booking
           /\ req' = Request("patch", f.id, f.status)
           /\ res' = Response(200, << >>, f.matched)
    /\ flights' = [flights EXCEPT ![h] = Idle]
    /\ user' = NoDoc
    /\ body' = {}
    /\ fault' = 0
    /\ UNCHANGED <<rev, bookings, inserted, now, up, coupons>>

\* the requests served concurrently address the booking created first, with
\* the two decisions an admin can take
ConcurrentRequestIds == {IdText(HexChars[11])}

ConcurrentStatuses == {"approved", "rejected"}

NextConcurrent ==
    \/ \E payload \in Payloads : CreateBooking(payload)
    \/ \E id \in ConcurrentRequestIds : DeleteBooking(id)
    \/ \E h \in Handlers, id \in ConcurrentRequestIds, status \in ConcurrentStatuses :
          BeginStatusChange(h, id, status)
    \/ \E h \in Handlers : WriteStatus(h)
    \/ \E h \in Handlers : LookupUser(h)
    \/ \E h \in Handlers : PromoteUser(h)

\* the server of src/index.js with the status change taking its store calls
\* one at a time, other requests served in between
SpecConcurrent == Init /\ [][NextConcurrent]_vars

\* PUT /users
PutUser(payload) ==
    LET out == PutUsers(users, payload, now)
    IN  /\ up
        /\ Len(out.users) <= MaxUsers + MaxNewUsers
        /\ users' = out.users
        /\ calls' = out.calls
        /\ req' = Request("putUser", payload, Absent)
        /\ res' = Response(out.code, << >>, 0)
        /\ booking' = NoDoc
        /\ user' = FindUser(users, "email", payload.email)
        /\ body' = {}
        /\ fault' = 0
        /\ UNCHANGED <<rev, bookings, inserted, now, others>>

\* PATCH /members/downgrade/:id
Downgrade(id) ==
    LET out == DowngradeMember(users, id)
    IN  /\ up
        /\ users' = out.users
        /\ calls' = out.calls
        /\ req' = Request("downgrade", id, Absent)
        /\ res' = Response(out.code, << >>, 0)
        /\ booking' = NoDoc
        /\ user' = NoDoc
        /\ body' = {}
        /\ fault' = 0
        /\ UNCHANGED <<rev, bookings, inserted, now, others>>

\* PUT /users up to its await of usersCollection.findOne, with the answer
\* on a missing field
BeginPutUser(h, payload) ==
    LET out == PutUsers(users, payload, now)
    IN  /\ up
        /\ flights[h] = Idle
        /\ Len(users) + Cardinality({ g \in Handlers : flights[g] # Idle })
              < MaxUsers + MaxNewUsers
        /\ calls' = IF out.calls = << >> THEN << >> ELSE << out.calls[1] >>
        /\ user' = FindUser(users, "email", payload.email)
        /\ IF out.code = 400
           THEN /\ req' = Request("putUser", payload, Absent)
                /\ res' = Response(400, << >>, 0)
                /\ UNCHANGED flights
           ELSE /\ flights' = [flights EXCEPT ![h] =
                                  UserFlight(IF out.code = 200 THEN "touch" ELSE "insertUser",
                                             payload)]
                /\ UNCHANGED <<req, res>>
        /\ booking' = NoDoc
        /\ body' = {}
        /\ fault' = 0
        /\ UNCHANGED <<rev, bookings, users, inserted, now, up, coupons>>

\* the handler that found the user resumes with updateOne of lastLoggedIn
TouchUser(h) ==
    /\ up
    /\ flights[h] # Idle
    /\ flights[h].pc = "touch"
    /\ users' = SetLastLoggedIn(users, flights[h].payload.email, now)
    /\ calls' = << Call("users", "updateOne", flights[h].payload.email) >>
    /\ req' = Request("putUser", flights[h].payload, Absent)
    /\ res' = Response(200, << >>, 0)
    /\ flights' = [flights EXCEPT ![h] = Idle]
    /\ booking' = NoDoc
    /\ user' = NoDoc
    /\ body' = {}
    /\ fault' = 0
    /\ UNCHANGED <<rev, bookings, inserted, now, up, coupons>>

\* the handler that found no user resumes with insertOne on the collection
\* as it is now
InsertUser(h) ==
    /\ up
    /\ flights[h] # Idle
    /\ flights[h].pc = "insertUser"
    /\ users' = Append(users, NewUser(flights[h].payload, now))
    /\ calls' = << Call("users", "insertOne", flights[h].payload.email) >>
    /\ req' = Request("putUser", flights[h].payload, Absent)
    /\ res' = Response(201, << >>, 0)
    /\ flights' = [flights EXCEPT ![h] = Idle]
    /\ booking' = NoDoc
    /\ user' = NoDoc
    /\ body' = {}
    /\ fault' = 0
    /\ UNCHANGED <<rev, bookings, inserted, now, up, coupons>>

NextUsers ==
    \/ \E payload \in UserPayloads : PutUser(payload)
    \/ \E id \in UserRequestIds : Downgrade(id)
    \/ \E h \in Handlers, payload \in UserPayloads : BeginPutUser(h, payload)
    \/ \E h \in Handlers : TouchUser(h)
    \/ \E h \in Handlers : InsertUser(h)

\* the account routes of src/index.js: PUT /users served in one piece, or
\* taking its store calls one at a time with other requests in between
SpecUsers == Init /\ [][NextUsers]_vars

NextMembers ==
    \/ \E payload \in Payloads : CreateBooking(payload)
    \/ \E id \in RequestIds, status \in RequestStatuses : RequestStatusChange(id, status)
    \/ \E id \in UserRequestIds : Downgrade(id)

\* the bookings and the downgrade of src/index.js
SpecMembers == Init /\ [][NextMembers]_vars

\* the server of src/index.js with store calls that may fail
SpecFaulty == Init /\ [][NextFaulty]_vars

\* any one of the revisions of the server
SpecRevisions == InitRevisions /\ [][Next]_vars

(***************************************************************************)
(* Properties of booking creation and of the status change.                *)
(***************************************************************************)

\* C1: the booking that POST /bookings stores has status pending, whatever
\* status the payload carried.
CreatedIsPending ==
    req.op = "create" =>
        /\ res.code = 201
        /\ FindBooking(bookings, res.insertedId) # NoDoc
        /\ FindBooking(bookings, res.insertedId).status = "pending"

\* a booking was created from a payload that asked for status approved
CreatedWithSuppliedStatus ==
    /\ req.op = "create"
    /\ req.status = "approved"
    /\ FindBooking(bookings, res.insertedId).status = "pending"

\* C2: a status change with a valid status on an existing booking answers 200
\* and leaves the requested status stored, whatever the status was before.
StatusChangeApplied ==
    [][ ( /\ req'.op = "patch"
          /\ req'.status \in ValidStatuses
          /\ IsValidObjectId(req'.id)
          /\ FindBooking(bookings, ObjectId(req'.id)) # NoDoc )
        => ( /\ res'.code = 200
             /\ FindBooking(bookings', ObjectId(req'.id)) # NoDoc
             /\ FindBooking(bookings', ObjectId(req'.id)).status = req'.status ) ]_vars

\* an approved booking was moved back to pending
ApprovedBackToPending ==
    /\ req.op = "patch"
    /\ req.status = "pending"
    /\ res.code = 200
    /\ booking # NoDoc
    /\ booking.status = "approved"
    /\ FindBooking(bookings, ObjectId(req.id)).status = "pending"

\* C3: a status change whose status is absent or outside the three values
\* answers 400, makes no store call and changes no booking and no user, for
\* every id.
InvalidStatusRejected ==
    [][ ( /\ req'.op = "patch"
          /\ req'.status \notin ValidStatuses )
        => ( /\ res'.code = 400
             /\ calls' = << >>
             /\ bookings' = bookings
             /\ users' = users ) ]_vars

\* status "cancelled" was requested for a stored booking and refused
CancelledRefused ==
    /\ req.op = "patch"
    /\ req.status = "cancelled"
    /\ res.code = 400
    /\ calls = << >>
    /\ IsValidObjectId(req.id)
    /\ FindBooking(bookings, ObjectId(req.id)) # NoDoc

\* C4: a status change with a valid status on an id for which no booking is
\* stored answers 404 and changes no booking and no user.
UnresolvedIdNotFound ==
    [][ ( /\ req'.op = "patch"
          /\ req'.status \in ValidStatuses
          /\ (IsValidObjectId(req'.id) => FindBooking(bookings, ObjectId(req'.id)) = NoDoc) )
        => ( /\ res'.code = 404
             /\ bookings' = bookings
             /\ users' = users ) ]_vars

\* C5: the status change ("nonexistent-id", approved) answers 404.
NonexistentIdNotFound ==
    ( /\ req.op = "patch"
      /\ req.id = NonexistentId
      /\ req.status = "approved" )
    => res.code = 404

\* C6: approving an existing booking answers 200 and turns the role of the
\* user with the booking's userEmail from user into member; a matched member
\* or admin, and every other user, is left as it was.
ApprovalPromotes ==
    [][ ( /\ req'.op = "patch"
          /\ req'.status = "approved"
          /\ IsValidObjectId(req'.id)
          /\ FindBooking(bookings, ObjectId(req'.id)) # NoDoc )
        => ( /\ res'.code = 200
             /\ \A i \in DOMAIN users :
                  users'[i] =
                     IF /\ users[i] # NoDoc
                        /\ users[i].email = FindBooking(bookings, ObjectId(req'.id)).userEmail
                        /\ users[i].role = "user"
                     THEN [users[i] EXCEPT !.role = "member"]
                     ELSE users[i] ) ]_vars

\* an approval found the requester with role user and made it a member
ApprovalPromoted ==
    /\ req.op = "patch"
    /\ req.status = "approved"
    /\ res.code = 200
    /\ user # NoDoc
    /\ user.role = "user"
    /\ \E i \in DOMAIN users :
         /\ users[i] # NoDoc
         /\ users[i].email = booking.userEmail
         /\ users[i].role = "member"

\* C7: in every revision a status change changes no role except user ->
\* member; a member or an admin keeps the role.
NoRoleRegression ==
    [][ req'.op = "patch"
        => \A i \in DOMAIN users :
             \/ users'[i] = users[i]
             \/ /\ users[i] # NoDoc
                /\ users[i].role = "user"
                /\ users'[i] = [users[i] EXCEPT !.role = "member"] ]_vars

\* C8: approving the same booking a second time, right after a successful
\* approval, answers 200 and changes neither the bookings nor the users.
ApprovalIdempotent ==
    [][ ( /\ req.op = "patch"
          /\ req.status = "approved"
          /\ res.code = 200
          /\ req'.op = "patch"
          /\ req'.status = "approved"
          /\ IsValidObjectId(req'.id)
          /\ ObjectId(req'.id) = ObjectId(req.id) )
        => ( /\ res'.code = 200
             /\ bookings' = bookings
             /\ users' = users ) ]_vars

\* an approval found its booking approved and the requester a member already
ApprovedAgain ==
    /\ req.op = "patch"
    /\ req.status = "approved"
    /\ res.code = 200
    /\ booking # NoDoc
    /\ booking.status = "approved"
    /\ user # NoDoc
    /\ user.role = "member"
    /\ FindBooking(bookings, ObjectId(req.id)).status = "approved"

OnlyStatusChanges ==
    [][ req'.op = "patch"
        => \A oid \in DOMAIN bookings :
             \/ bookings'[oid] = bookings[oid]
             \/ /\ IsValidObjectId(req'.id)
                /\ oid = ObjectId(req'.id)
                /\ bookings[oid] # NoDoc
                /\ bookings'[oid] # NoDoc
                /\ bookings'[oid].userEmail = bookings[oid].userEmail
                /\ bookings'[oid].userId = bookings[oid].userId
                /\ bookings'[oid].court = bookings[oid].court
                /\ bookings'[oid].createdAt = bookings[oid].createdAt ]_vars

\* a status change rewrote the status of one booking while another is stored
StatusChangedRestKept ==
    /\ req.op = "patch"
    /\ res.code = 200
    /\ booking # NoDoc
    /\ booking.status # req.status
    /\ FindBooking(bookings, ObjectId(req.id)) = [booking EXCEPT !.status = req.status]
    /\ \E oid \in DOMAIN bookings : oid # ObjectId(req.id) /\ bookings[oid] # NoDoc

(***************************************************************************)
(* Properties of deletion, of the list routes and of the promotion frame.  *)
(***************************************************************************)

\* C13: DELETE /bookings/:id on a stored booking removes that booking and
\* answers 200; on an id with no stored booking it answers 404 and changes
\* nothing; after a delete that answered 200, a status change or a delete
\* with the same id answers 404.
DeleteRemovesOrNotFound ==
    [][ /\ req'.op = "delete"
           => IF IsValidObjectId(req'.id) /\ FindBooking(bookings, ObjectId(req'.id)) # NoDoc
              THEN /\ res'.code = 200
                   /\ bookings' = [bookings EXCEPT ![ObjectId(req'.id)] = NoDoc]
                   /\ users' = users
              ELSE /\ res'.code = 404
                   /\ bookings' = bookings
                   /\ users' = users
        /\ ( /\ req.op = "delete"
             /\ res.code = 200
             /\ req'.op \in {"patch", "delete"}
             /\ req'.id = req.id
             /\ req'.op = "patch" => req'.status \in ValidStatuses )
           => res'.code = 404 ]_vars

\* C14: GET /bookings/pending/:userId answers 200 with exactly the stored
\* bookings that are pending and whose userEmail, the field the promotion
\* rule matches users by, equals the parameter; it changes nothing.
PendingListByContact ==
    [][ req'.op = "listPending"
        => ( /\ res'.code = 200
             /\ body' = { oid \in DOMAIN bookings :
                            /\ bookings[oid] # NoDoc
                            /\ bookings[oid].status = "pending"
                            /\ bookings[oid].userEmail = req'.id }
             /\ bookings' = bookings
             /\ users' = users ) ]_vars

\* C15: GET /bookings/approved/:email answers 200 with exactly the stored
\* bookings that are approved and whose userEmail equals the parameter; it
\* changes nothing.
ApprovedListByContact ==
    [][ req'.op = "listApproved"
        => ( /\ res'.code = 200
             /\ body' = { oid \in DOMAIN bookings :
                            /\ bookings[oid] # NoDoc
                            /\ bookings[oid].status = "approved"
                            /\ bookings[oid].userEmail = req'.id }
             /\ bookings' = bookings
             /\ users' = users ) ]_vars

\* the approved list of the requester holds one booking and leaves out
\* another booking of the same requester that is not approved
ApprovedListedOthersNot ==
    /\ req.op = "listApproved"
    /\ res.code = 200
    /\ body # {}
    /\ \E oid \in DOMAIN bookings :
         /\ bookings[oid] # NoDoc
         /\ bookings[oid].userEmail = req.id
         /\ bookings[oid].status # "approved"
         /\ oid \notin body

\* C19: a step in which a user record turns into a member is a status change
\* to approved that answered 200 on a stored booking; it changes exactly one
\* user, whose email is the booking's userEmail, in the role field only, and
\* it changes no booking but the addressed one.
PromotionFrame ==
    [][ ( \E i \in DOMAIN users :
            /\ users'[i] # users[i]
            /\ users'[i] # NoDoc
            /\ users'[i].role = "member" )
        => ( /\ req'.op = "patch"
             /\ req'.status = "approved"
             /\ res'.code = 200
             /\ IsValidObjectId(req'.id)
             /\ FindBooking(bookings, ObjectId(req'.id)) # NoDoc
             /\ \E i \in DOMAIN users :
                  /\ users[i] # NoDoc
                  /\ users[i].email = FindBooking(bookings, ObjectId(req'.id)).userEmail
                  /\ users'[i] = [users[i] EXCEPT !.role = "member"]
                  /\ \A j \in DOMAIN users \ {i} : users'[j] = users[j]
             /\ \A oid \in DOMAIN bookings \ {ObjectId(req'.id)} :
                  bookings'[oid] = bookings[oid] ) ]_vars

\* an approval promoted the requester while another account of role user
\* and another stored booking stayed as they were
PromotedOnlyTheRequester ==
    /\ req.op = "patch"
    /\ req.status = "approved"
    /\ res.code = 200
    /\ user # NoDoc
    /\ user.role = "user"
    /\ \E i \in DOMAIN users :
         /\ users[i] # NoDoc
         /\ users[i].email = booking.userEmail
         /\ users[i].role = "member"
    /\ \E j \in DOMAIN users :
         /\ users[j] # NoDoc
         /\ users[j].email # booking.userEmail
         /\ users[j].role = "user"
    /\ \E oid \in DOMAIN bookings :
         /\ oid # ObjectId(req.id)
         /\ bookings[oid] # NoDoc
         /\ bookings[oid].status = "pending"

(***************************************************************************)
(* Properties under store failures.                                        *)
(***************************************************************************)

\* C11: a status change answers 400 for an invalid status, 404 for an id
\* with no stored booking, and 500 exactly when a store call failed.
FailuresDistinct ==
    [][ req'.op = "patch"
        => ( /\ req'.status \notin ValidStatuses => res'.code = 400
             /\ ( /\ req'.status \in ValidStatuses
                  /\ fault' = 0
                  /\ IsValidObjectId(req'.id) => FindBooking(bookings, ObjectId(req'.id)) = NoDoc )
                => res'.code = 404
             /\ res'.code = 500 <=> fault' # 0 ) ]_vars

\* C12: every stored booking has one of the three statuses; a step that
\* leaves a booking with a new status other than pending is a status change
\* that answered 200 with that status; a step that changes or removes a
\* stored booking is a status change or a delete.
StatusOnlyBySuccessfulChange ==
    [][ \A oid \in DOMAIN bookings :
          /\ bookings'[oid] # NoDoc => bookings'[oid].status \in ValidStatuses
          /\ ( /\ bookings'[oid] # NoDoc
               /\ bookings'[oid] # bookings[oid]
               /\ bookings'[oid].status # "pending" )
             => ( /\ req'.op = "patch"
                  /\ res'.code = 200
                  /\ req'.status = bookings'[oid].status )
          /\ ( /\ bookings[oid] # NoDoc
               /\ bookings'[oid] # bookings[oid] )
             => req'.op \in {"patch", "delete"} ]_vars

\* C12 as amended: the status change that set the status answered 200, or
\* answered 500 because a call on the users collection failed after the
\* status write.
StatusOnlyByStatusWrite ==
    [][ \A oid \in DOMAIN bookings :
          /\ bookings'[oid] # NoDoc => bookings'[oid].status \in ValidStatuses
          /\ ( /\ bookings'[oid] # NoDoc
               /\ bookings'[oid] # bookings[oid]
               /\ bookings'[oid].status # "pending" )
             => ( /\ req'.op = "patch"
                  /\ res'.code = 200 \/ (res'.code = 500 /\ fault' > 2)
                  /\ IsValidObjectId(req'.id)
                  /\ oid = ObjectId(req'.id)
                  /\ req'.status = bookings'[oid].status )
          /\ ( /\ bookings[oid] # NoDoc
               /\ bookings'[oid] # bookings[oid] )
             => ( /\ req'.op \in {"patch", "delete"}
                  /\ IsValidObjectId(req'.id)
                  /\ oid = ObjectId(req'.id) ) ]_vars

\* a status change answered 500 and its status is stored all the same
StatusStoredDespiteFailure ==
    /\ req.op = "patch"
    /\ res.code = 500
    /\ fault > 2
    /\ booking # NoDoc
    /\ booking.status = "pending"
    /\ FindBooking(bookings, ObjectId(req.id)) # NoDoc
    /\ FindBooking(bookings, ObjectId(req.id)).status = req.status

\* some stored booking of the i-th user's email is approved while that user
\* still has role user
Unpromoted(bks, usrs, i) ==
    /\ usrs[i] # NoDoc
    /\ usrs[i].role = "user"
    /\ \E oid \in DOMAIN bks :
         /\ bks[oid] # NoDoc
         /\ bks[oid].status = "approved"
         /\ bks[oid].userEmail = usrs[i].email

\* C16: an approval whose handler stops at a call on the users collection
\* has stored status approved and promoted nobody; a user left unpromoted
\* stays so in every step that is not a status change or a delete.
ApprovalWritesNotAtomic ==
    [][ /\ ( /\ req'.op = "patch"
             /\ req'.status = "approved"
             /\ fault' > 2 )
           => ( /\ res'.code = 500
                /\ FindBooking(bookings', ObjectId(req'.id)) # NoDoc
                /\ FindBooking(bookings', ObjectId(req'.id)).status = "approved"
                /\ users' = users )
        /\ \A i \in DOMAIN users :
             ( /\ Unpromoted(bookings, users, i)
               /\ ~Unpromoted(bookings', users', i) )
             => ( /\ req'.op \in {"patch", "delete"}
                  /\ fault' = 0
                  /\ res'.code = 200 ) ]_vars

\* the handler stopped between the two writes: the booking is approved, its
\* requester still has role user, and a later request has been served
LeftUnpromoted ==
    /\ \E i \in DOMAIN users : Unpromoted(bookings, users, i)
    /\ req.op \in {"listApproved", "getUser"}
    /\ res.code = 200

\* C17: every request is answered with one of 200, 201, 400, 404, 409, 500
\* by its handler, and the process keeps serving.
EveryFailureAnswered ==
    /\ up
    /\ req.op # "none" => res.code \in {200, 201, 400, 404, 409, 500}
    /\ (fault # 0 /\ req.op \in {"getUser", "updateProfile"}) => res.code # 500

(***************************************************************************)
(* Properties of the coupon routes.                                        *)
(***************************************************************************)

\* C18: a POST /coupons whose four required fields are present answers 409
\* and stores nothing when a stored coupon has its code, and answers 201 and
\* stores exactly one coupon, with that code, when none has.
CouponCreatedOrConflict ==
    [][ ( /\ req'.op = "createCoupon"
          /\ req'.id.title # Absent
          /\ req'.id.description # Absent
          /\ req'.id.coupon # Absent
          /\ req'.id.discountAmount # Undefined )
        => IF \E i \in DOMAIN coupons :
                 coupons[i] # NoDoc /\ coupons[i].coupon = req'.id.coupon
           THEN res'.code = 409 /\ coupons' = coupons
           ELSE /\ res'.code = 201
                /\ Len(coupons') = Len(coupons) + 1
                /\ SubSeq(coupons', 1, Len(coupons)) = coupons
                /\ coupons'[Len(coupons')].coupon = req'.id.coupon ]_vars

(***************************************************************************)
(* Properties of interleaved requests.                                     *)
(***************************************************************************)

\* C20: a status change that answers 200 has matched one booking with its
\* write, and none promotes a user after a write that matched no booking.
AnsweredStatusChangeMatched ==
    [][ \A h \in Handlers :
          ( /\ flights[h] # Idle
            /\ flights'[h] = Idle
            /\ res'.code = 200 )
          => ( /\ res'.matched = 1
               /\ users' # users => flights[h].matched = 1 ) ]_vars

\* C21: whenever the role write of an approval promotes a user while the
\* booking the approval addressed is stored, that booking's status is
\* approved.
PromotionSeesApproved ==
    [][ \A h \in Handlers :
          ( /\ flights[h] # Idle
            /\ flights[h].pc = "promote"
            /\ flights'[h] = Idle
            /\ users' # users
            /\ FindBooking(bookings, ObjectId(flights[h].id)) # NoDoc )
          => FindBooking(bookings', ObjectId(flights[h].id)).status = "approved" ]_vars

\* C22: no two stored coupons have the same code.
CouponCodesUnique ==
    \A i \in DOMAIN coupons : \A j \in DOMAIN coupons :
        ( /\ i # j
          /\ coupons[i] # NoDoc
          /\ coupons[j] # NoDoc )
        => coupons[i].coupon # coupons[j].coupon

(***************************************************************************)
(* Properties of the account routes.                                       *)
(***************************************************************************)

\* C23: no two stored users have the same email.
OneUserPerEmail ==
    \A i \in DOMAIN users : \A j \in DOMAIN users :
        ( /\ i # j
          /\ users[i] # NoDoc
          /\ users[j] # NoDoc )
        => users[i].email # users[j].email

\* C24: a PUT /users without email or name answers 400 and stores nothing;
\* when its lookup finds the email stored it answers 200 and changes nothing
\* but the lastLoggedIn of a user of that email; when its lookup finds none
\* it answers 201 and adds one user, of that email and of role user,
\* whatever role the body carries; no step of it changes an existing user's
\* role.
PutUserKeepsRoles ==
    [][ LET p == req'.id
            resumed == { h \in Handlers : flights[h] # Idle /\ flights'[h] = Idle }
            stored == IF resumed = {}
                      THEN \E i \in DOMAIN users :
                              users[i] # NoDoc /\ users[i].email = p.email
                      ELSE \A h \in resumed : flights[h].pc = "touch"
        IN  /\ req'.op = "putUser"
               => \A i \in DOMAIN users :
                     users[i] # NoDoc => users'[i].role = users[i].role
            /\ ( /\ req'.op = "putUser"
                 /\ flights' = flights \/ resumed # {} )
               => IF p.email = Absent \/ p.name = Absent
                  THEN res'.code = 400 /\ users' = users
                  ELSE IF stored
                  THEN /\ res'.code = 200
                       /\ DOMAIN users' = DOMAIN users
                       /\ \A i \in DOMAIN users :
                            \/ users'[i] = users[i]
                            \/ /\ users[i] # NoDoc
                               /\ users[i].email = p.email
                               /\ users'[i] =
                                     [users[i] EXCEPT !.lastLoggedIn = users'[i].lastLoggedIn]
                  ELSE /\ res'.code = 201
                       /\ Len(users') = Len(users) + 1
                       /\ SubSeq(users', 1, Len(users)) = users
                       /\ users'[Len(users')].email = p.email
                       /\ users'[Len(users')].role = "user" ]_vars

\* a member has logged in again with a body that asks for role admin: the
\* role is kept, lastLoggedIn is new
LoggedInAgainRoleKept ==
    /\ req.op = "putUser"
    /\ res.code = 200
    /\ req.id.role = "admin"
    /\ user # NoDoc
    /\ user.role = "member"
    /\ FindUser(users, "email", req.id.email) = [user EXCEPT !.lastLoggedIn = now]
    /\ user.lastLoggedIn # now

\* C25: a downgrade of a stored member sets role user and answers 200; any
\* other downgrade answers 404 and changes no user; an approval of a stored
\* booking whose requester has role user leaves that requester a member.
DowngradeOnlyMembers ==
    [][ /\ req'.op = "downgrade"
           => LET at == IF IsValidObjectId(req'.id)
                        THEN UserAt(users, ObjectId(req'.id)) ELSE 0
              IN  IF at # 0 /\ users[at].role = "member"
                  THEN res'.code = 200 /\ users' = [users EXCEPT ![at].role = "user"]
                  ELSE res'.code = 404 /\ users' = users
        /\ ( /\ req'.op = "patch"
             /\ req'.status = "approved"
             /\ res'.code = 200
             /\ booking' # NoDoc )
           => \A i \in DOMAIN users :
                ( /\ users[i] # NoDoc
                  /\ users[i].email = booking'.userEmail
                  /\ users[i].role = "user"
                  /\ i = FirstUser(users, "email", booking'.userEmail) )
                => users'[i].role = "member" ]_vars

====
